---------------------------- MODULE Spec2Model ----------------------------
(***************************************************************************)
(* The eBay webhook service of alynt-drop-webhook: the two Flask           *)
(* applications webhook.py (Vercel) and render_webhook.py (Render.com).    *)
(*                                                                         *)
(* Every route handler is a function of the request it serves, of the      *)
(* wall clock (datetime.now()) and of a module-level token constant.  The  *)
(* model keeps, per request-handling worker, the request being served, the *)
(* response the handler returned and the log records it emitted.           *)
(*                                                                         *)
(* Python values are tagged records, so that None, "", 0 and {} stay       *)
(* distinct and `x or y`, `if x:` and dict.get() are computed as Python    *)
(* computes them.                                                          *)
(***************************************************************************)
EXTENDS Integers, Sequences, FiniteSets, TLC

VARIABLES
    EBAY_VERIFICATION_TOKEN,  \* webhook.py module global
    VERIFICATION_TOKEN,       \* render_webhook.py module global
    now,                      \* the wall clock read by datetime.now()
    pc,                       \* worker -> "idle" | "handling" | "done"
    req,                      \* worker -> the request it serves
    resp,                     \* worker -> the response of its last request
    logged                    \* worker -> the log records of its last request

vars == <<EBAY_VERIFICATION_TOKEN, VERIFICATION_TOKEN, now, pc, req, resp, logged>>

----------------------------------------------------------------------------
(* Bounds of the model.                                                    *)

\* The clock takes the values 0..MaxClock.
MaxClock == 1

\* The request-handling workers (threads or processes) of a deployment.
Workers == {"w1", "w2"}

----------------------------------------------------------------------------
(* Python values.                                                          *)

PyNone == [t |-> "None"]
PyStr(s) == [t |-> "str", s |-> s]
PyInt(n) == [t |-> "int", n |-> n]
PyBool(b) == [t |-> "bool", b |-> b]
PyList(q) == [t |-> "list", items |-> q]
PyDict(f) == [t |-> "dict", d |-> f]

EmptyDict == PyDict(<<>>)

\* bool(v): the truth value `if v:`, `not v` and `v or w` test.
Truthy(v) ==
    CASE v.t = "None" -> FALSE
      [] v.t = "str"  -> v.s # ""
      [] v.t = "int"  -> v.n # 0
      [] v.t = "bool" -> v.b
      [] v.t = "list" -> Len(v.items) > 0
      [] v.t = "dict" -> DOMAIN v.d # {}

\* `a or b`
PyOr(a, b) == IF Truthy(a) THEN a ELSE b

\* `v == 'literal'` for a str literal: a value of another type is unequal.
EqStr(v, s) == v.t = "str" /\ v.s = s

\* dict.get(key, default) on a plain dict (a function from keys to values).
Get(d, key, default) == IF key \in DOMAIN d THEN d[key] ELSE default

\* An evaluation that may raise: the value it returned or the exception.
Ok(v) == [raised |-> FALSE, exc |-> "", v |-> v]
Raise(e) == [raised |-> TRUE, exc |-> e, v |-> PyNone]

\* data[key] where the code has data.get(key, default): a missing key raises.
AttrGet_subscript(data, key, default) ==
    IF data.t # "dict" THEN Raise("AttributeError")
    ELSE IF key \in DOMAIN data.d THEN Ok(data.d[key])
    ELSE Raise("KeyError")

\* data.get(key, default) on an arbitrary Python value: only a dict has .get.
AttrGet(data, key, default) ==
    IF data.t = "dict" THEN Ok(Get(data.d, key, default))
    ELSE Raise("AttributeError")

\* str(e) of a caught exception.
ExcStr(e) ==
    CASE e = "AttributeError" -> PyStr("object has no attribute 'get'")
      [] e = "KeyError" -> PyStr("missing key")
      [] e = "BadRequest" -> PyStr("400 Bad Request: Failed to decode JSON object")

Digit(n) == CASE n = 0 -> "0" [] n = 1 -> "1" [] n = 2 -> "2" [] n = 3 -> "3"
              [] n = 4 -> "4" [] n = 5 -> "5" [] n = 6 -> "6" [] n = 7 -> "7"
              [] n = 8 -> "8" [] n = 9 -> "9"

RECURSIVE NatStr(_)
NatStr(n) == IF n < 10 THEN Digit(n) ELSE NatStr(n \div 10) \o Digit(n % 10)

\* format(v, '') of a scalar inside an f-string.
Format(v) ==
    CASE v.t = "None" -> "None"
      [] v.t = "str"  -> v.s
      [] v.t = "int"  -> IF v.n < 0 THEN "-" \o NatStr(0 - v.n) ELSE NatStr(v.n)
      [] v.t = "bool" -> IF v.b THEN "True" ELSE "False"

\* datetime.now().isoformat(): the text of the clock's reading.
IsoFormat(clock) == PyStr("T" \o NatStr(clock))

----------------------------------------------------------------------------
(* Requests and responses.                                                 *)

\* request.get_json() of a request sent as application/json: the parsed
\* value, or werkzeug's BadRequest when the body (the empty body included)
\* is not JSON text.
get_json(body) ==
    IF body.raw = "json" THEN Ok(body.v) ELSE Raise("BadRequest")

Malformed == [raw |-> "malformed", v |-> PyNone]
JsonBody(v) == [raw |-> "json", v |-> v]

\* request.args.get(name): the parameter's (first) value or None.
Arg(r, name) == Get(r.args, name, PyNone)

\* jsonify(d), status  /  a dict returned from a view
JsonResp(d, status) ==
    [via |-> "handler", status |-> status, mimetype |-> "application/json",
     body |-> PyDict(d)]

\* A str body with the given mimetype.
TextResp(s, status, mimetype) ==
    [via |-> "handler", status |-> status, mimetype |-> mimetype, body |-> s]

\* What Flask answers when an exception leaves a view function: the
\* HTTPException's own page, or the 500 page for any other exception.
FrameworkError(e) ==
    [via |-> "framework", status |-> IF e = "BadRequest" THEN 400 ELSE 500,
     mimetype |-> "text/html", body |-> PyStr(e)]

NoResp == [via |-> "none", status |-> 0, mimetype |-> "", body |-> PyNone]

\* logger.<level>(f"..."): the record's level, its text up to the first
\* interpolation, and the interpolated values.
LogRec(level, text, values) == [level |-> level, text |-> text, values |-> values]

\* What a view function (or a helper that returns a response) did.
Result(r, l) == [resp |-> r, log |-> l]


----------------------------------------------------------------------------
(* webhook.py: the signature check and the per-event handlers.             *)

\* The check with the rejection its comment announces for production.
verify_ebay_signature_strict(headers, payload, verification_token) ==
    LET ebay_signature == Get(headers, "X-EBAY-SIGNATURE", PyNone) IN
    IF ~Truthy(ebay_signature)
    THEN [ok |-> FALSE,
          log |-> <<LogRec("warning", "No eBay signature found in headers", <<>>)>>]
    ELSE [ok |-> TRUE, log |-> <<>>]

\* verify_ebay_signature(headers, payload, verification_token): whether the
\* notification is accepted, and the warning it logs.
verify_ebay_signature(headers, payload, verification_token) ==
    LET ebay_signature == Get(headers, "X-EBAY-SIGNATURE", PyNone) IN
    IF ~Truthy(ebay_signature)
    THEN [ok |-> TRUE,
          log |-> <<LogRec("warning", "No eBay signature found in headers", <<>>)>>]
    ELSE [ok |-> TRUE, log |-> <<>>]

\* The function answering with the dict of its except branch.
process_account_deletion_failed(user_id, marketplace, deletion_date, clock) ==
    [ret |-> [deleted |-> PyBool(FALSE),
              details |-> PyStr("Error processing deletion: "),
              user_id |-> user_id],
     log |-> <<LogRec("error", "Error processing account deletion: ", <<>>)>>]

\* process_account_deletion(user_id, marketplace, deletion_date): the dict it
\* returns (its except branch has nothing in the try block that raises).
process_account_deletion(user_id, marketplace, deletion_date, clock) ==
    [ret |-> [deleted |-> PyBool(TRUE),
              details |-> PyStr("No user account data stored - dropshipping automation processes orders only"),
              user_id |-> user_id,
              marketplace |-> marketplace,
              processed_at |-> IsoFormat(clock)],
     log |-> <<LogRec("info", "Processing deletion for user ", <<user_id, marketplace>>)>>]

\* The except branch shared by the four per-event handlers.
HandlerFailed(what, e) ==
    Result(JsonResp([error |-> ExcStr(e)], 500),
           <<LogRec("error", what, <<ExcStr(e)>>)>>)

handle_account_deletion(data, clock) ==
    LET user_id == AttrGet(data, "userId", PyStr("unknown"))
        deletion_date == AttrGet(data, "deletionDate", IsoFormat(clock))
    IN  IF user_id.raised THEN HandlerFailed("Error handling account deletion: ", user_id.exc)
        ELSE IF deletion_date.raised
        THEN HandlerFailed("Error handling account deletion: ", deletion_date.exc)
        ELSE Result(JsonResp([status |-> PyStr("processed"),
                              action |-> PyStr("account_deletion_acknowledged"),
                              message |-> PyStr("No user data to delete - dropshipping automation only")],
                             200),
                    <<LogRec("info", "Account deletion: User ", <<user_id.v, deletion_date.v>>)>>)

handle_item_sold(data) ==
    LET item_id == AttrGet(data, "itemId", PyNone)
        buyer_info == AttrGet(data, "buyer", EmptyDict)
        quantity == AttrGet(data, "quantity", PyInt(1))
        price == AttrGet(data, "price", PyInt(0))
    IN  IF item_id.raised THEN HandlerFailed("Error handling ItemSold: ", item_id.exc)
        ELSE IF buyer_info.raised THEN HandlerFailed("Error handling ItemSold: ", buyer_info.exc)
        ELSE IF quantity.raised THEN HandlerFailed("Error handling ItemSold: ", quantity.exc)
        ELSE IF price.raised THEN HandlerFailed("Error handling ItemSold: ", price.exc)
        ELSE Result(JsonResp([status |-> PyStr("processed"),
                              action |-> PyStr("sale_recorded"),
                              message |-> PyStr("Sale processed: $" \o Format(price.v)),
                              next_step |-> PyStr("place_cj_order")],
                             200),
                    <<LogRec("info", "SALE! Item: ", <<item_id.v, quantity.v, price.v>>)>>)

handle_order_paid(data) ==
    LET order_id == AttrGet(data, "orderId", PyNone)
        payment_status == AttrGet(data, "paymentStatus", PyNone)
    IN  IF order_id.raised THEN HandlerFailed("Error handling OrderPaid: ", order_id.exc)
        ELSE IF payment_status.raised
        THEN HandlerFailed("Error handling OrderPaid: ", payment_status.exc)
        ELSE Result(JsonResp([status |-> PyStr("processed"),
                              action |-> PyStr("payment_confirmed")],
                             200),
                    <<LogRec("info", "Payment confirmed: ", <<order_id.v>>)>>)

handle_shipping_request(data) ==
    LET order_id == AttrGet(data, "orderId", PyNone)
    IN  IF order_id.raised THEN HandlerFailed("Error handling shipping request: ", order_id.exc)
        ELSE Result(JsonResp([status |-> PyStr("processed"),
                              action |-> PyStr("tracking_provided")],
                             200),
                    <<LogRec("info", "Shipping requested: ", <<order_id.v>>)>>)

----------------------------------------------------------------------------
(* webhook.py: the view functions.                                         *)

\* The view without its try/except: the exception leaves it, and Flask answers.
NotificationFailed_uncaught(e, log) == Result(FrameworkError(e), log)

\* The except branch of handle_ebay_notification.
NotificationFailed(e, log) ==
    Result(JsonResp([error |-> PyStr("Processing failed")], 500),
           log \o <<LogRec("error", "Error handling eBay notification: ", <<ExcStr(e)>>)>>)

\* POST /api/webhook/ebay
handle_ebay_notification(r, token, clock) ==
    LET data == get_json(r.body)
        headers == r.headers
        sig == verify_ebay_signature(headers, r.body, token)
        verified == sig.log \o <<LogRec("info", "Verified eBay notification: ", <<data.v>>)>>
        notification_type == AttrGet(data.v, "eventType", PyStr(""))
        nt == notification_type.v
        handled ==
            IF EqStr(nt, "ItemSold") THEN handle_item_sold(data.v)
            ELSE IF EqStr(nt, "OrderPaid") THEN handle_order_paid(data.v)
            ELSE IF EqStr(nt, "ShippingLabelRequested") THEN handle_shipping_request(data.v)
            ELSE IF EqStr(nt, "ACCOUNT_DELETION") \/ EqStr(nt, "MARKETPLACE_ACCOUNT_DELETION")
            THEN handle_account_deletion(data.v, clock)
            ELSE Result(JsonResp([status |-> PyStr("received"),
                                  verification_token |-> PyStr("verified")],
                                 200),
                        <<LogRec("info", "Unhandled notification type: ", <<nt>>)>>)
    IN  IF data.raised THEN NotificationFailed(data.exc, <<>>)
        ELSE IF ~sig.ok
        THEN Result(JsonResp([error |-> PyStr("Invalid signature")], 401),
                    sig.log \o <<LogRec("warning", "Invalid eBay signature - rejecting notification", <<>>)>>)
        ELSE IF notification_type.raised
        THEN NotificationFailed(notification_type.exc, verified)
        ELSE Result(handled.resp, verified \o handled.log)

\* The view echoing only for a request that also carries the configured token.
verify_webhook_endpoint_tokened(r, clock) ==
    LET challenge == Arg(r, "challenge") IN
    IF Truthy(challenge)
       /\ EqStr(Arg(r, "verification_token"), "09kErMQPDnrYeBbQJFK8R4hK5Li3n30Q")
    THEN Result(TextResp(challenge, 200, "text/html"), <<>>)
    ELSE Result(JsonResp([status |-> PyStr("verified"),
                          endpoint |-> PyStr("eBay webhook endpoint active"),
                          verification_token |-> PyStr("configured"),
                          timestamp |-> IsoFormat(clock)],
                         200),
                <<>>)

\* GET /api/webhook/ebay/verify
verify_webhook_endpoint(r, clock) ==
    LET challenge == Arg(r, "challenge") IN
    IF Truthy(challenge)
    THEN Result(TextResp(challenge, 200, "text/html"),
                <<LogRec("info", "eBay webhook verification challenge: ", <<challenge>>)>>)
    ELSE Result(JsonResp([status |-> PyStr("verified"),
                          endpoint |-> PyStr("eBay webhook endpoint active"),
                          verification_token |-> PyStr("configured"),
                          timestamp |-> IsoFormat(clock)],
                         200),
                <<>>)

\* The except branch of handle_marketplace_account_deletion.
DeletionFailed(e, clock, log) ==
    Result(JsonResp([status |-> PyStr("error"),
                     message |-> PyStr("Failed to process account deletion"),
                     error |-> ExcStr(e),
                     timestamp |-> IsoFormat(clock)],
                    500),
           log \o <<LogRec("error", "Error handling account deletion: ", <<ExcStr(e)>>)>>)

\* GET and POST /api/marketplace-account-deletion
handle_marketplace_account_deletion(r, clock) ==
    LET challenge == PyOr(Arg(r, "challenge_code"), Arg(r, "challenge"))
        parsed == get_json(r.body)
        data == PyOr(parsed.v, EmptyDict)
        headers == r.headers
        received == <<LogRec("info", "Account deletion notification: ", <<data>>),
                      LogRec("info", "Headers: ", <<PyDict(headers)>>)>>
        notification_id == Get(headers, "X-EBAY-NOTIFICATION-ID", PyStr("unknown"))
        timestamp == Get(headers, "X-EBAY-NOTIFICATION-TIMESTAMP", IsoFormat(clock))
        user_id == AttrGet(data, "userId", PyStr("unknown"))
        marketplace == AttrGet(data, "marketplace", PyStr("eBay"))
        deletion_date == AttrGet(data, "deletionDate", IsoFormat(clock))
        result == process_account_deletion(user_id.v, marketplace.v, deletion_date.v, clock)
        response ==
            [status |-> PyStr("success"),
             message |-> PyStr("Account deletion notification processed successfully"),
             notificationId |-> notification_id,
             processedAt |-> IsoFormat(clock),
             userDataDeleted |-> Get(result.ret, "deleted", PyBool(TRUE)),
             details |-> Get(result.ret, "details",
                             PyStr("No user data stored - dropshipping automation only"))]
    IN  IF r.method = "GET"
        THEN IF Truthy(challenge)
             THEN Result(TextResp(challenge, 200, "text/plain"),
                         <<LogRec("info", "eBay endpoint validation challenge: ", <<challenge>>)>>)
             ELSE Result(JsonResp([status |-> PyStr("active"),
                                   service |-> PyStr("marketplace-account-deletion"),
                                   description |-> PyStr("eBay marketplace account deletion compliance endpoint"),
                                   methods |-> PyList(<<PyStr("POST"), PyStr("GET")>>),
                                   compliance |-> PyStr("eBay Developer Program Requirements"),
                                   verification_token |-> PyStr("configured"),
                                   timestamp |-> IsoFormat(clock),
                                   version |-> PyStr("1.0.0")],
                                  200),
                         <<>>)
        ELSE IF parsed.raised THEN DeletionFailed(parsed.exc, clock, <<>>)
        ELSE IF user_id.raised THEN DeletionFailed(user_id.exc, clock, received)
        ELSE IF marketplace.raised THEN DeletionFailed(marketplace.exc, clock, received)
        ELSE IF deletion_date.raised THEN DeletionFailed(deletion_date.exc, clock, received)
        ELSE Result(JsonResp(response, 200),
                    received \o result.log
                        \o <<LogRec("info", "Account deletion processed: ", <<user_id.v>>)>>)

\* The view with the parameters read in another order of precedence.
verify_deletion_endpoint_test_reordered(r, clock) ==
    LET challenge == PyOr(PyOr(Arg(r, "challenge"), Arg(r, "verification_token")),
                          Arg(r, "challenge_code"))
    IN  IF Truthy(challenge)
        THEN Result(TextResp(challenge, 200, "text/plain"), <<>>)
        ELSE Result(JsonResp([status |-> PyStr("verified"),
                              endpoint |-> PyStr("marketplace-account-deletion"),
                              ready |-> PyBool(TRUE),
                              timestamp |-> IsoFormat(clock)],
                             200),
                    <<>>)

\* GET /api/marketplace-account-deletion/verify
verify_deletion_endpoint_test(r, clock) ==
    LET challenge == PyOr(PyOr(Arg(r, "challenge_code"), Arg(r, "challenge")),
                          Arg(r, "verification_token"))
    IN  IF Truthy(challenge)
        THEN Result(TextResp(challenge, 200, "text/plain"),
                    <<LogRec("info", "Deletion endpoint verification challenge: ", <<challenge>>)>>)
        ELSE Result(JsonResp([status |-> PyStr("verified"),
                              endpoint |-> PyStr("marketplace-account-deletion"),
                              ready |-> PyBool(TRUE),
                              timestamp |-> IsoFormat(clock)],
                             200),
                    <<>>)

\* GET /api/health
health_check(clock) ==
    Result(JsonResp([status |-> PyStr("healthy"),
                     timestamp |-> IsoFormat(clock),
                     service |-> PyStr("alynt-drop-webhook"),
                     version |-> PyStr("1.0.0"),
                     compliance |->
                         PyDict([marketplace_account_deletion |-> PyStr("implemented"),
                                 ebay_notifications |-> PyStr("active"),
                                 webhook_status |-> PyStr("operational")])],
                    200),
           <<>>)

\* GET /api/compliance/status
compliance_status(clock) ==
    Result(JsonResp([compliance_status |-> PyStr("COMPLIANT"),
                     endpoints |->
                         PyDict([marketplace_account_deletion |->
                                     PyDict([url |-> PyStr("/api/marketplace-account-deletion"),
                                             methods |-> PyList(<<PyStr("POST"), PyStr("GET")>>),
                                             status |-> PyStr("active"),
                                             description |-> PyStr("Handles user account deletion notifications")]),
                                 ebay_notifications |->
                                     PyDict([url |-> PyStr("/api/webhook/ebay"),
                                             methods |-> PyList(<<PyStr("POST")>>),
                                             status |-> PyStr("active"),
                                             description |-> PyStr("Handles eBay platform notifications")])]),
                     data_handling |->
                         PyDict([user_data_stored |-> PyBool(FALSE),
                                 account_data_stored |-> PyBool(FALSE),
                                 purpose |-> PyStr("Dropshipping automation - order processing only"),
                                 data_retention |-> PyStr("Orders processed immediately, no long-term storage")]),
                     last_updated |-> IsoFormat(clock)],
                    200),
           <<>>)

\* GET /  (webhook.py)
home(clock) ==
    Result(JsonResp([message |-> PyStr("Alynt Drop eBay Webhook Service"),
                     status |-> PyStr("ACTIVE"),
                     compliance |-> PyStr("eBay Developer Program Compliant"),
                     endpoints |->
                         PyDict([webhook |-> PyStr("/api/webhook/ebay"),
                                 health |-> PyStr("/api/health"),
                                 marketplace_deletion |-> PyStr("/api/marketplace-account-deletion"),
                                 compliance_status |-> PyStr("/api/compliance/status")]),
                     purpose |-> PyStr("Automated dropshipping order processing"),
                     data_policy |-> PyStr("No user account data stored - orders processed in real-time"),
                     version |-> PyStr("1.0.0"),
                     last_updated |-> IsoFormat(clock)],
                    200),
           <<>>)

----------------------------------------------------------------------------
(* render_webhook.py: the view functions.                                  *)

\* GET /
health(clock) ==
    Result(JsonResp([status |-> PyStr("Alynt Drop Webhook Active"),
                     timestamp |-> IsoFormat(clock)],
                    200),
           <<>>)

\* The check that skips the comparison with the configured token.
VerificationPasses_untokened(token, configured, challenge) == Truthy(challenge)

\* `token == VERIFICATION_TOKEN and challenge`
VerificationPasses(token, configured, challenge) ==
    EqStr(token, configured) /\ Truthy(challenge)

\* GET and POST /webhooks/marketplace-account-deletion
marketplace_deletion(r, configured, clock) ==
    LET challenge == Arg(r, "challenge_code")
        token == Arg(r, "verification_token")
        asked == <<LogRec("info", "Verification request - Token: ", <<token, challenge>>)>>
        parsed == get_json(r.body)
        data == PyOr(parsed.v, EmptyDict)
    IN  IF r.method = "GET"
        THEN IF VerificationPasses(token, configured, challenge)
             THEN Result(TextResp(challenge, 200, "text/plain"),
                         asked \o <<LogRec("info", "Verification successful", <<>>)>>)
             ELSE Result(TextResp(PyStr("Verification failed"), 400, "text/plain"),
                         asked \o <<LogRec("error", "Verification failed", <<>>)>>)
        ELSE IF parsed.raised
        THEN Result(JsonResp([error |-> ExcStr(parsed.exc)], 500),
                    <<LogRec("error", "Error: ", <<ExcStr(parsed.exc)>>)>>)
        ELSE Result(JsonResp([status |-> PyStr("received"),
                              timestamp |-> IsoFormat(clock)],
                             200),
                    <<LogRec("info", "Marketplace notification: ", <<data>>)>>)

----------------------------------------------------------------------------
(* The requests the environment sends.  `rich` selects the full input sets *)
(* (one request at a time) or the reduced ones (parallel workers).          *)

\* A key the sender left out of a JSON object, a query string or the headers.
Absent == [t |-> "absent"]

\* The dict holding the keys of `opts` that are not Absent.
MkDict(opts) == [k \in {x \in DOMAIN opts : opts[x] # Absent} |-> opts[k]]

NoBody == [raw |-> "empty", v |-> PyNone]

Request(app, method, path, args, headers, body) ==
    [app |-> app, method |-> method, path |-> path, args |-> args,
     headers |-> headers, body |-> body]

NoReq == Request("", "", "", <<>>, <<>>, NoBody)

KnownEventTypes ==
    {"ItemSold", "OrderPaid", "ShippingLabelRequested", "ACCOUNT_DELETION",
     "MARKETPLACE_ACCOUNT_DELETION"}

EventTypeOpts(rich) ==
    IF rich
    THEN {Absent, PyNone, PyInt(7), PyStr(""), PyStr("itemsold"), PyStr("Refund")}
             \cup {PyStr(e) : e \in KnownEventTypes}
    ELSE {Absent, PyStr("ItemSold")}

ItemIdOpts(rich) == IF rich THEN {Absent, PyStr("X1")} ELSE {Absent}
QuantityOpts(rich) == IF rich THEN {Absent, PyInt(2)} ELSE {Absent}
PriceOpts(rich) == IF rich THEN {Absent, PyNone, PyInt(20)} ELSE {Absent, PyInt(20)}
OrderIdOpts(rich) == IF rich THEN {Absent, PyStr("O1")} ELSE {Absent}
UserIdOpts(rich) == IF rich THEN {Absent, PyStr("U1")} ELSE {Absent, PyStr("U1")}
MarketplaceOpts(rich) == IF rich THEN {Absent, PyStr("EBAY_US")} ELSE {Absent}
DeletionDateOpts(rich) == IF rich THEN {Absent, PyStr("2025-01-01")} ELSE {Absent}

\* Bodies that are not a JSON object: not JSON at all, null, scalars, arrays.
OtherBodies(rich) ==
    IF rich
    THEN {Malformed, NoBody, JsonBody(PyNone), JsonBody(PyBool(FALSE)),
          JsonBody(PyBool(TRUE)), JsonBody(PyInt(0)), JsonBody(PyInt(7)),
          JsonBody(PyStr("")), JsonBody(PyStr("x")), JsonBody(PyList(<<>>)),
          JsonBody(PyList(<<PyInt(1)>>))}
    ELSE {Malformed, JsonBody(PyNone)}

NotificationBodies(rich) ==
    OtherBodies(rich) \cup
    {JsonBody(PyDict(MkDict([eventType |-> et, itemId |-> i, quantity |-> q,
                             price |-> p, orderId |-> o, userId |-> u,
                             deletionDate |-> d]))) :
        et \in EventTypeOpts(rich), i \in ItemIdOpts(rich), q \in QuantityOpts(rich),
        p \in PriceOpts(rich), o \in OrderIdOpts(rich), u \in UserIdOpts(rich),
        d \in DeletionDateOpts(rich)}

DeletionBodies(rich) ==
    OtherBodies(rich) \cup
    {JsonBody(PyDict(MkDict([userId |-> u, marketplace |-> m, deletionDate |-> d]))) :
        u \in UserIdOpts(rich), m \in MarketplaceOpts(rich), d \in DeletionDateOpts(rich)}

\* dict(request.headers): the keys are spelled as the framework spells them.
HeaderSets(rich) ==
    {MkDict([k \in {"X-EBAY-SIGNATURE", "X-Ebay-Signature", "X-EBAY-NOTIFICATION-ID"} |->
                CASE k = "X-EBAY-SIGNATURE" -> s
                  [] k = "X-Ebay-Signature" -> c
                  [] k = "X-EBAY-NOTIFICATION-ID" -> n]) :
        s \in (IF rich THEN {Absent, PyStr(""), PyStr("sig")} ELSE {Absent, PyStr("sig")}),
        c \in (IF rich THEN {Absent, PyStr("sig")} ELSE {Absent}),
        n \in (IF rich THEN {Absent, PyStr("n-1")} ELSE {Absent})}

ChallengeCodeOpts(rich) ==
    IF rich THEN {Absent, PyStr(""), PyStr("cc1")} ELSE {Absent, PyStr("cc1")}
ChallengeOpts(rich) ==
    IF rich THEN {Absent, PyStr(""), PyStr("ch1")} ELSE {Absent, PyStr("ch1")}
TokenOpts(rich) ==
    IF rich
    THEN {Absent, PyStr(""), PyStr("wrong"), PyStr("alynt-drop-webhook-token-2025"),
          PyStr("09kErMQPDnrYeBbQJFK8R4hK5Li3n30Q")}
    ELSE {Absent, PyStr("wrong"), PyStr("alynt-drop-webhook-token-2025")}

QueryStrings(rich) ==
    {MkDict([challenge_code |-> cc, challenge |-> ch, verification_token |-> vt]) :
        cc \in ChallengeCodeOpts(rich), ch \in ChallengeOpts(rich), vt \in TokenOpts(rich)}

\* app, path of the routes that answer a verification GET
VerificationRoutes ==
    {<<"webhook", "/api/webhook/ebay/verify">>,
     <<"webhook", "/api/marketplace-account-deletion">>,
     <<"webhook", "/api/marketplace-account-deletion/verify">>,
     <<"render_webhook", "/webhooks/marketplace-account-deletion">>}

\* app, path of the routes that accept a deletion notification
DeletionRoutes ==
    {<<"webhook", "/api/marketplace-account-deletion">>,
     <<"render_webhook", "/webhooks/marketplace-account-deletion">>}

\* app, path of the routes that report a fixed document
ReportRoutes ==
    {<<"webhook", "/api/health">>, <<"webhook", "/api/compliance/status">>,
     <<"webhook", "/">>, <<"render_webhook", "/">>}

----------------------------------------------------------------------------
(* The state machine.                                                      *)

Init ==
    /\ EBAY_VERIFICATION_TOKEN = "09kErMQPDnrYeBbQJFK8R4hK5Li3n30Q"
    /\ VERIFICATION_TOKEN = "alynt-drop-webhook-token-2025"
    /\ now = 0
    /\ pc = [w \in Workers |-> "idle"]
    /\ req = [w \in Workers |-> NoReq]
    /\ resp = [w \in Workers |-> NoResp]
    /\ logged = [w \in Workers |-> <<>>]

\* An idle worker is handed request r.
Accept(w, r) ==
    /\ pc[w] = "idle"
    /\ pc' = [pc EXCEPT ![w] = "handling"]
    /\ req' = [req EXCEPT ![w] = r]
    /\ UNCHANGED <<EBAY_VERIFICATION_TOKEN, VERIFICATION_TOKEN, now, resp, logged>>

ReceiveNotification(w, rich) ==
    /\ pc[w] = "idle"
    /\ \E h \in HeaderSets(rich), b \in NotificationBodies(rich) :
            Accept(w, Request("webhook", "POST", "/api/webhook/ebay", <<>>, h, b))

ReceiveDeletion(w, rich) ==
    /\ pc[w] = "idle"
    /\ \E route \in DeletionRoutes, h \in HeaderSets(rich), b \in DeletionBodies(rich) :
            Accept(w, Request(route[1], "POST", route[2], <<>>, h, b))

ReceiveVerification(w, rich) ==
    /\ pc[w] = "idle"
    /\ \E route \in VerificationRoutes, q \in QueryStrings(rich) :
            Accept(w, Request(route[1], "GET", route[2], q, <<>>, NoBody))

ReceiveReport(w) ==
    /\ pc[w] = "idle"
    /\ \E route \in ReportRoutes :
            Accept(w, Request(route[1], "GET", route[2], <<>>, <<>>, NoBody))

\* Flask routes the request of worker w to the view of (app, method, path).
Routed(w, app, methods, path) ==
    /\ pc[w] = "handling"
    /\ req[w].app = app
    /\ req[w].method \in methods
    /\ req[w].path = path

\* The view returned: its response goes out, its log records are written.
Return(w, result) ==
    /\ pc' = [pc EXCEPT ![w] = "done"]
    /\ resp' = [resp EXCEPT ![w] = result.resp]
    /\ logged' = [logged EXCEPT ![w] = result.log]
    /\ UNCHANGED <<EBAY_VERIFICATION_TOKEN, VERIFICATION_TOKEN, now, req>>

HandleEbayNotification(w) ==
    /\ Routed(w, "webhook", {"POST"}, "/api/webhook/ebay")
    /\ Return(w, handle_ebay_notification(req[w], EBAY_VERIFICATION_TOKEN, now))

VerifyWebhookEndpoint(w) ==
    /\ Routed(w, "webhook", {"GET"}, "/api/webhook/ebay/verify")
    /\ Return(w, verify_webhook_endpoint(req[w], now))

HandleMarketplaceAccountDeletion(w) ==
    /\ Routed(w, "webhook", {"POST", "GET"}, "/api/marketplace-account-deletion")
    /\ Return(w, handle_marketplace_account_deletion(req[w], now))

VerifyDeletionEndpointTest(w) ==
    /\ Routed(w, "webhook", {"GET"}, "/api/marketplace-account-deletion/verify")
    /\ Return(w, verify_deletion_endpoint_test(req[w], now))

HealthCheck(w) ==
    /\ Routed(w, "webhook", {"GET"}, "/api/health")
    /\ Return(w, health_check(now))

ComplianceStatus(w) ==
    /\ Routed(w, "webhook", {"GET"}, "/api/compliance/status")
    /\ Return(w, compliance_status(now))

Home(w) ==
    /\ Routed(w, "webhook", {"GET"}, "/")
    /\ Return(w, home(now))

Health(w) ==
    /\ Routed(w, "render_webhook", {"GET"}, "/")
    /\ Return(w, health(now))

\* The view keeping the token of the last verification request as the
\* configured one.
MarketplaceDeletion_learning(w) ==
    /\ Routed(w, "render_webhook", {"GET", "POST"}, "/webhooks/marketplace-account-deletion")
    /\ pc' = [pc EXCEPT ![w] = "done"]
    /\ resp' = [resp EXCEPT ![w] = marketplace_deletion(req[w], VERIFICATION_TOKEN, now).resp]
    /\ logged' = [logged EXCEPT ![w] = <<>>]
    /\ VERIFICATION_TOKEN' =
           IF req[w].method = "GET" /\ Arg(req[w], "verification_token").t = "str"
           THEN Arg(req[w], "verification_token").s
           ELSE VERIFICATION_TOKEN
    /\ UNCHANGED <<EBAY_VERIFICATION_TOKEN, now, req>>

MarketplaceDeletion(w) ==
    /\ Routed(w, "render_webhook", {"GET", "POST"}, "/webhooks/marketplace-account-deletion")
    /\ Return(w, marketplace_deletion(req[w], VERIFICATION_TOKEN, now))

\* The response has been sent: the worker is free for the next request.
Send(w) ==
    /\ pc[w] = "done"
    /\ pc' = [pc EXCEPT ![w] = "idle"]
    /\ req' = [req EXCEPT ![w] = NoReq]
    /\ resp' = [resp EXCEPT ![w] = NoResp]
    /\ logged' = [logged EXCEPT ![w] = <<>>]
    /\ UNCHANGED <<EBAY_VERIFICATION_TOKEN, VERIFICATION_TOKEN, now>>

\* Time passes.
Tick ==
    /\ now < MaxClock
    /\ now' = now + 1
    /\ UNCHANGED <<EBAY_VERIFICATION_TOKEN, VERIFICATION_TOKEN, pc, req, resp, logged>>

Serve(w) ==
    \/ HandleEbayNotification(w)
    \/ VerifyWebhookEndpoint(w)
    \/ HandleMarketplaceAccountDeletion(w)
    \/ VerifyDeletionEndpointTest(w)
    \/ HealthCheck(w)
    \/ ComplianceStatus(w)
    \/ Home(w)
    \/ Health(w)
    \/ MarketplaceDeletion(w)
    \/ Send(w)

\* One request at a time, over the full input sets.
Next ==
    \/ ReceiveNotification("w1", TRUE)
    \/ ReceiveDeletion("w1", TRUE)
    \/ ReceiveVerification("w1", TRUE)
    \/ ReceiveReport("w1")
    \/ Serve("w1")
    \/ Tick

Spec == Init /\ [][Next]_vars

\* Parallel workers, over the reduced input sets.
NextWorkers ==
    \/ \E w \in Workers :
        \/ ReceiveNotification(w, FALSE)
        \/ ReceiveDeletion(w, FALSE)
        \/ ReceiveVerification(w, FALSE)
        \/ ReceiveReport(w)
        \/ Serve(w)
    \/ Tick

SpecWorkers == Init /\ [][NextWorkers]_vars

----------------------------------------------------------------------------
(* Vocabulary of the properties.                                           *)

\* Worker w has answered a request sent with `method` to `path`.
Answered(w, method, path) ==
    pc[w] = "done" /\ req[w].method = method /\ req[w].path = path

\* The body is JSON text denoting an object.
IsObject(body) == body.raw = "json" /\ body.v.t = "dict"

\* The body is a JSON object whose eventType is exactly a known event type.
HasKnownEvent(body) ==
    /\ IsObject(body)
    /\ "eventType" \in DOMAIN body.v.d
    /\ body.v.d["eventType"].t = "str"
    /\ body.v.d["eventType"].s \in KnownEventTypes

\* The keys of a JSON object body.
Keys(body) == DOMAIN body.v.d

\* Field k of a JSON response document; Absent when the response has none.
Field(response, k) ==
    IF response.body.t = "dict" THEN Get(response.body.d, k, Absent) ELSE Absent

\* The action section 4.1's routing table lists for a known event type.
RoutingTable(e) ==
    CASE e = "ItemSold" -> "sale_recorded"
      [] e = "OrderPaid" -> "payment_confirmed"
      [] e = "ShippingLabelRequested" -> "tracking_provided"
      [] e = "ACCOUNT_DELETION" -> "account_deletion_acknowledged"
      [] e = "MARKETPLACE_ACCOUNT_DELETION" -> "account_deletion_acknowledged"

\* The handler of worker w's request logged at error level: it caught a fault.
CaughtFault(w) ==
    \E i \in 1..Len(logged[w]) : logged[w][i].level = "error"

\* The values interpolated into worker w's log record that starts with `text`.
LoggedValues(w, text) ==
    LET at == {i \in 1..Len(logged[w]) : logged[w][i].text = text}
    IN  IF at = {} THEN <<>> ELSE logged[w][CHOOSE i \in at : TRUE].values

\* The parameter is in the query string with a non-empty value.
NonEmpty(r, name) == name \in DOMAIN r.args /\ r.args[name].s # ""

\* The first non-empty value among the parameters `names` (a sequence), or
\* Absent when every one of them is missing or empty.
RECURSIVE FirstNonEmpty(_, _)
FirstNonEmpty(r, names) ==
    IF names = <<>> THEN Absent
    ELSE IF NonEmpty(r, Head(names)) THEN r.args[Head(names)]
    ELSE FirstNonEmpty(r, Tail(names))

IntakePaths ==
    {"/api/webhook/ebay", "/api/marketplace-account-deletion",
     "/webhooks/marketplace-account-deletion"}

----------------------------------------------------------------------------
(* C1.  A notification whose eventType is a known event type is answered   *)
(* with status 200, status "processed" and the action of the routing       *)
(* table, whatever other fields the object holds.                          *)

C1_KnownEventProcessed ==
    \A w \in Workers :
        (Answered(w, "POST", "/api/webhook/ebay") /\ HasKnownEvent(req[w].body)) =>
            /\ resp[w].via = "handler"
            /\ resp[w].status = 200
            /\ Field(resp[w], "status") = PyStr("processed")
            /\ Field(resp[w], "action") =
                   PyStr(RoutingTable(req[w].body.v.d["eventType"].s))

\* A deletion notification holding nothing but its eventType was processed.
C1_Witness ==
    \E w \in Workers :
        /\ Answered(w, "POST", "/api/webhook/ebay")
        /\ HasKnownEvent(req[w].body)
        /\ req[w].body.v.d["eventType"].s = "MARKETPLACE_ACCOUNT_DELETION"
        /\ Keys(req[w].body) = {"eventType"}
        /\ Field(resp[w], "action") = PyStr("account_deletion_acknowledged")

(* C2.  A notification whose body is valid JSON of any shape and whose      *)
(* eventType is absent or unknown is answered with status 200, status       *)
(* "received" and no action.                                                *)

C2_UnknownEventReceived ==
    \A w \in Workers :
        (/\ Answered(w, "POST", "/api/webhook/ebay")
         /\ req[w].body.raw = "json"
         /\ ~HasKnownEvent(req[w].body)) =>
            /\ resp[w].status = 200
            /\ Field(resp[w], "status") = PyStr("received")
            /\ Field(resp[w], "action") = Absent

(* C3.  A POST to an intake endpoint whose body is not JSON, or whose       *)
(* handling raises, is answered by the view itself with status 500 and a    *)
(* body holding an `error` field; no fault leaves a view.                   *)

C3_FaultsAnsweredWith500 ==
    \A w \in Workers :
        pc[w] = "done" =>
            /\ resp[w].via = "handler"
            /\ (/\ req[w].method = "POST"
                /\ req[w].path \in IntakePaths
                /\ (req[w].body.raw # "json" \/ CaughtFault(w))) =>
                   /\ resp[w].status = 500
                   /\ Field(resp[w], "error") # Absent

\* A deletion notification that is not JSON was answered with the 500 document.
C3_Witness ==
    \E w \in Workers :
        /\ Answered(w, "POST", "/webhooks/marketplace-account-deletion")
        /\ req[w].body = Malformed
        /\ CaughtFault(w)
        /\ resp[w].status = 500
        /\ Field(resp[w], "error") # Absent

(* C4.  Token-checked verification on GET                                   *)
(* /webhooks/marketplace-account-deletion, as first stated: the answer is   *)
(* 200 with the challenge as its body exactly when verification_token       *)
(* equals the configured token and challenge_code is present; it is 400     *)
(* with the failure message otherwise.                                      *)

C4_EchoIffTokenAndChallengePresent ==
    \A w \in Workers :
        Answered(w, "GET", "/webhooks/marketplace-account-deletion") =>
            LET passes == /\ Arg(req[w], "verification_token") = PyStr(VERIFICATION_TOKEN)
                          /\ "challenge_code" \in DOMAIN req[w].args
            IN  IF passes
                THEN /\ resp[w].status = 200
                     /\ resp[w].body = Arg(req[w], "challenge_code")
                ELSE /\ resp[w].status = 400
                     /\ resp[w].body = PyStr("Verification failed")

(* C4, amended.  The answer is 200 with the challenge as its plain-text     *)
(* body exactly when verification_token equals the configured token and     *)
(* challenge_code is present and not empty; it is 400 with the failure      *)
(* message, the challenge not echoed, otherwise.                            *)

C4_EchoIffTokenAndChallengeNonEmpty ==
    \A w \in Workers :
        Answered(w, "GET", "/webhooks/marketplace-account-deletion") =>
            LET passes == /\ Arg(req[w], "verification_token") = PyStr(VERIFICATION_TOKEN)
                          /\ NonEmpty(req[w], "challenge_code")
            IN  /\ resp[w].mimetype = "text/plain"
                /\ IF passes
                   THEN /\ resp[w].status = 200
                        /\ resp[w].body = Arg(req[w], "challenge_code")
                   ELSE /\ resp[w].status = 400
                        /\ resp[w].body = PyStr("Verification failed")

\* The configured token and a challenge were sent, and the challenge came back.
C4_Witness ==
    \E w \in Workers :
        /\ Answered(w, "GET", "/webhooks/marketplace-account-deletion")
        /\ Arg(req[w], "verification_token") = PyStr(VERIFICATION_TOKEN)
        /\ Arg(req[w], "challenge_code") = PyStr("cc1")
        /\ resp[w].status = 200
        /\ resp[w].body = PyStr("cc1")

(* C5.  As first stated: every POST to /api/marketplace-account-deletion is *)
(* answered with status 200 and userDataDeleted = true, for every request   *)
(* body.                                                                    *)

C5_EveryBodyAcknowledged ==
    \A w \in Workers :
        Answered(w, "POST", "/api/marketplace-account-deletion") =>
            /\ resp[w].status = 200
            /\ Field(resp[w], "userDataDeleted") = PyBool(TRUE)

(* C5, amended.  A POST to /api/marketplace-account-deletion whose body is  *)
(* a JSON object, or a falsy JSON value (which the view replaces by {}), is *)
(* answered with status 200 and userDataDeleted = true whichever of userId, *)
(* marketplace and deletionDate are missing, 'unknown' and 'eBay' standing  *)
(* in for a missing userId and marketplace; no answer reports               *)
(* userDataDeleted = false.                                                 *)

C5_ObjectBodyAcknowledged ==
    \A w \in Workers :
        Answered(w, "POST", "/api/marketplace-account-deletion") =>
            LET body == req[w].body
                data == IF IsObject(body) THEN body.v.d ELSE <<>>
            IN  /\ Field(resp[w], "userDataDeleted") # PyBool(FALSE)
                /\ (body.raw = "json" /\ (body.v.t = "dict" \/ ~Truthy(body.v))) =>
                       /\ resp[w].status = 200
                       /\ Field(resp[w], "userDataDeleted") = PyBool(TRUE)
                       /\ ~CaughtFault(w)
                       /\ LoggedValues(w, "Processing deletion for user ") =
                              <<Get(data, "userId", PyStr("unknown")),
                                Get(data, "marketplace", PyStr("eBay"))>>

\* The empty object was acknowledged with the defaults substituted.
C5_Witness ==
    \E w \in Workers :
        /\ Answered(w, "POST", "/api/marketplace-account-deletion")
        /\ IsObject(req[w].body)
        /\ Keys(req[w].body) = {}
        /\ resp[w].status = 200
        /\ Field(resp[w], "userDataDeleted") = PyBool(TRUE)
        /\ LoggedValues(w, "Processing deletion for user ") = <<PyStr("unknown"), PyStr("eBay")>>

(* C6.  Token-trusting verification: a GET to /api/webhook/ebay/verify,     *)
(* /api/marketplace-account-deletion or                                     *)
(* /api/marketplace-account-deletion/verify that carries a challenge value  *)
(* (a non-empty `challenge`, or on the two deletion paths a non-empty       *)
(* `challenge_code`, which takes precedence) is answered with status 200    *)
(* and that value as its body, whatever verification_token accompanies it   *)
(* and whatever the configured token is.                                    *)

C6_ChallengeEchoedWhateverToken ==
    \A w \in Workers :
        LET carried ==
                IF req[w].path = "/api/webhook/ebay/verify"
                THEN FirstNonEmpty(req[w], <<"challenge">>)
                ELSE FirstNonEmpty(req[w], <<"challenge_code", "challenge">>)
        IN  (/\ pc[w] = "done"
             /\ req[w].method = "GET"
             /\ req[w].path \in {"/api/webhook/ebay/verify",
                                 "/api/marketplace-account-deletion",
                                 "/api/marketplace-account-deletion/verify"}
             /\ carried # Absent) =>
                /\ resp[w].via = "handler"
                /\ resp[w].status = 200
                /\ resp[w].body = carried

\* A challenge sent with a wrong token to /api/webhook/ebay/verify came back.
C6_Witness ==
    \E w \in Workers :
        /\ Answered(w, "GET", "/api/webhook/ebay/verify")
        /\ Arg(req[w], "challenge") = PyStr("ch1")
        /\ Arg(req[w], "verification_token") = PyStr("wrong")
        /\ resp[w].status = 200
        /\ resp[w].body = PyStr("ch1")

(* C7.  No request changes what a later request reads: under every          *)
(* interleaving of requests on parallel workers the configured tokens keep  *)
(* their initial values, and two verification requests that are equal get   *)
(* the same status and, when a challenge is echoed, the same body, whatever *)
(* was handled in between.                                                  *)

C7_VerificationIsAFunctionOfTheRequest ==
    /\ EBAY_VERIFICATION_TOKEN = "09kErMQPDnrYeBbQJFK8R4hK5Li3n30Q"
    /\ VERIFICATION_TOKEN = "alynt-drop-webhook-token-2025"
    /\ \A w1, w2 \in Workers :
        (/\ pc[w1] = "done" /\ pc[w2] = "done"
         /\ req[w1] = req[w2]
         /\ req[w1].method = "GET"
         /\ <<req[w1].app, req[w1].path>> \in VerificationRoutes) =>
            /\ resp[w1].status = resp[w2].status
            /\ resp[w1].mimetype = resp[w2].mimetype
            /\ resp[w1].body.t = "str" => resp[w1].body = resp[w2].body

\* Two workers hold the answers to the same token-checked challenge.
C7_Witness ==
    \E w1, w2 \in Workers :
        /\ w1 # w2
        /\ Answered(w1, "GET", "/webhooks/marketplace-account-deletion")
        /\ pc[w2] = "done"
        /\ req[w1] = req[w2]
        /\ Arg(req[w1], "challenge_code") = PyStr("cc1")
        /\ resp[w1].body = PyStr("cc1")
        /\ resp[w2].body = PyStr("cc1")
        /\ now > 0

(* C8.  As stated: the per-event handlers substitute a fixed placeholder    *)
(* for every missing field: price 0 and quantity 1 for an ItemSold object   *)
(* (answered 200 with message 'Sale processed: $0'), "unknown" for a        *)
(* missing itemId or orderId; no handler returns its 500 branch for a JSON  *)
(* object.                                                                  *)

C8_MissingFieldsGetPlaceholders ==
    \A w \in Workers :
        (Answered(w, "POST", "/api/webhook/ebay") /\ HasKnownEvent(req[w].body)) =>
            LET data == req[w].body.v.d
                event == data["eventType"].s
                sale == LoggedValues(w, "SALE! Item: ")
            IN  /\ resp[w].status # 500
                /\ event = "ItemSold" =>
                       /\ "quantity" \notin DOMAIN data => sale[2] = PyInt(1)
                       /\ "price" \notin DOMAIN data =>
                              /\ sale[3] = PyInt(0)
                              /\ resp[w].status = 200
                              /\ Field(resp[w], "message") = PyStr("Sale processed: $0")
                       /\ "itemId" \notin DOMAIN data => sale[1] = PyStr("unknown")
                /\ (event = "OrderPaid" /\ "orderId" \notin DOMAIN data) =>
                       LoggedValues(w, "Payment confirmed: ") = <<PyStr("unknown")>>
                /\ (event = "ShippingLabelRequested" /\ "orderId" \notin DOMAIN data) =>
                       LoggedValues(w, "Shipping requested: ") = <<PyStr("unknown")>>

(* C9.  The signature check of POST /api/webhook/ebay never rejects:        *)
(* verify_ebay_signature accepts every header set, no notification is       *)
(* answered 401, and the answer to a notification is the answer to the same *)
(* notification sent with any other headers.                                *)

C9_SignatureNeverRejects ==
    \A w \in Workers :
        Answered(w, "POST", "/api/webhook/ebay") =>
            /\ resp[w].status # 401
            /\ Field(resp[w], "error") # PyStr("Invalid signature")
            /\ \A h \in HeaderSets(TRUE) :
                /\ verify_ebay_signature(h, req[w].body, EBAY_VERIFICATION_TOKEN).ok
                /\ handle_ebay_notification([req[w] EXCEPT !.headers = h],
                                            EBAY_VERIFICATION_TOKEN, now).resp = resp[w]

\* A notification sent without any signature header was processed.
C9_Witness ==
    \E w \in Workers :
        /\ Answered(w, "POST", "/api/webhook/ebay")
        /\ DOMAIN req[w].headers = {}
        /\ HasKnownEvent(req[w].body)
        /\ resp[w].status = 200

(* C10.  GET /api/marketplace-account-deletion/verify answers 200 with, as  *)
(* plain text, the first non-empty value among challenge_code, challenge    *)
(* and verification_token in that order, and with the JSON 'verified'       *)
(* document only when all three are absent or empty;                        *)
(* GET /api/marketplace-account-deletion applies the same rule to           *)
(* challenge_code then challenge, its JSON document being the endpoint      *)
(* description.                                                             *)

C10_FirstNonEmptyParameterEchoed ==
    \A w \in Workers :
        /\ Answered(w, "GET", "/api/marketplace-account-deletion/verify") =>
               LET first == FirstNonEmpty(req[w], <<"challenge_code", "challenge",
                                                    "verification_token">>)
               IN  /\ resp[w].status = 200
                   /\ IF first # Absent
                      THEN resp[w].mimetype = "text/plain" /\ resp[w].body = first
                      ELSE /\ resp[w].mimetype = "application/json"
                           /\ Field(resp[w], "status") = PyStr("verified")
        /\ Answered(w, "GET", "/api/marketplace-account-deletion") =>
               LET first == FirstNonEmpty(req[w], <<"challenge_code", "challenge">>)
               IN  /\ resp[w].status = 200
                   /\ IF first # Absent
                      THEN resp[w].mimetype = "text/plain" /\ resp[w].body = first
                      ELSE /\ resp[w].mimetype = "application/json"
                           /\ Field(resp[w], "status") = PyStr("active")

\* A request carrying only verification_token got the token back.
C10_Witness ==
    \E w \in Workers :
        /\ Answered(w, "GET", "/api/marketplace-account-deletion/verify")
        /\ DOMAIN req[w].args = {"verification_token"}
        /\ req[w].args["verification_token"] = PyStr("wrong")
        /\ resp[w].mimetype = "text/plain"
        /\ resp[w].body = PyStr("wrong")

=============================================================================
